---- MODULE Spec2Model ----
(***************************************************************************)
(* Prediction-serving workflow of the crypto-liquidity dashboard           *)
(* (crypto-project/app/streamlit_app.py): input adaptation, single and     *)
(* batch prediction, and the CSV history store.                            *)
(*                                                                         *)
(* Cell values (Python / pandas objects) are records [k, n, s]:            *)
(*   k = "num"  a finite number n      k = "str"  the string s             *)
(*   k = "none" Python None            k = "nan"  float NaN                *)
(*   k = "inf"  float infinity         k = "obj"  a non-scalar object      *)
(*   k = "raise" stands for an exception raised instead of a value         *)
(***************************************************************************)
EXTENDS Integers, Sequences, FiniteSets, TLC

VARIABLES
    model,        \* the loaded model artifact: does it declare feature_names_in_, and which
    dirs,         \* directories that exist under BASE_DIR
    CSV_HISTORY,  \* reports/predictions/prediction_history.csv: [exists, lines]
    clock,        \* datetime.now(), in seconds
    last,         \* what the last script run did and showed
    d,            \* input mapping handed to prepare_model_df_from_ui_dict (adapter runs)
    df,           \* the DataFrame it returned
    paths,        \* the frames the batch and preview paths build from the same values
    render,       \* what the history panel showed
    pdf           \* generate_pdf at work: the canvas and the loop's position

vars == <<model, dirs, CSV_HISTORY, clock, last, d, df, paths, render, pdf>>

----------------------------------------------------------------------------
(* Bounds *)

MaxNum == 3        \* numbers are drawn from 0..MaxNum
MaxBatch == 2      \* rows of one batch upload
MaxRows == 2       \* data rows the history file may reach
MaxClock == 1      \* seconds the clock may advance
MaxFields == 100   \* fields of a record handed to generate_pdf

----------------------------------------------------------------------------
(* Values *)

Num(n) == [k |-> "num", n |-> n, s |-> ""]
Str(s) == [k |-> "str", n |-> 0, s |-> s]
None == [k |-> "none", n |-> 0, s |-> ""]
NaN == [k |-> "nan", n |-> 0, s |-> ""]
Inf == [k |-> "inf", n |-> 0, s |-> ""]
Obj == [k |-> "obj", n |-> 0, s |-> ""]       \* a non-scalar object (a row of a 2-D result)
Raise == [k |-> "raise", n |-> 0, s |-> ""]

Range(s) == {s[i] : i \in DOMAIN s}

NumRange == 0..MaxNum

\* decimal text of a number, and its inverse on the texts that are numbers
IsNumText(t) == \E n \in NumRange : ToString(n) = t
ParseNum(t) == CHOOSE n \in NumRange : ToString(n) = t

\* Python float(v)
float(v) ==
    CASE v.k = "num" -> v
      [] v.k = "nan" -> v
      [] v.k = "inf" -> v
      [] v.k = "str" -> IF IsNumText(v.s) THEN Num(ParseNum(v.s))
                        ELSE IF v.s = "inf" THEN Inf
                        ELSE IF v.s = "nan" THEN NaN
                        ELSE Raise
      [] OTHER -> Raise

----------------------------------------------------------------------------
(* Configuration *)

MODEL_FEATURES ==
    <<"price", "1h", "24h", "7d", "24h_volume", "mkt_cap", "liquidity_ratio", "price_change_24h">>

UI_FIELDS ==
    <<"coin", "symbol", "price", "1h", "24h", "7d",
      "24h_volume", "mkt_cap", "date", "liquidity_ratio", "price_change_24h">>

DisplayFields == {"coin", "symbol", "date"}

\* model_feature_names: the model's feature_names_in_, else a copy of MODEL_FEATURES
model_feature_names ==
    IF model.has_names THEN model.feature_names_in_ ELSE MODEL_FEATURES

----------------------------------------------------------------------------
(* InputAdapter *)

\* a loop body without the try/except around float
CoerceField_NoExcept(dd, f) ==
    LET v == IF f \in DOMAIN dd THEN dd[f] ELSE Num(0)
        w == IF v = Str("") \/ v = None THEN Num(0) ELSE v
    IN  float(w)

\* one pass of the loop body over MODEL_FEATURES: d.get, "" / None -> 0.0, float, except -> 0.0
CoerceField(dd, f) ==
    LET v == IF f \in DOMAIN dd THEN dd[f] ELSE Num(0)
        w == IF v = Str("") \/ v = None THEN Num(0) ELSE v
        x == float(w)
    IN  IF x = Raise THEN Num(0) ELSE x

\* df[names]: column selection, in the order (and multiplicity) of names
SelectColumns(frame, names) ==
    [columns |-> names,
     data |-> [i \in DOMAIN frame.data |-> [c \in Range(names) |-> frame.data[i][c]]]]

\* a reorder that always falls back to the canonical order
Reorder_Canonical(frame) ==
    SelectColumns(frame, MODEL_FEATURES)

\* the reorder rule shared by the single, batch and preview paths
Reorder(frame) ==
    IF \A i \in DOMAIN model_feature_names : model_feature_names[i] \in Range(frame.columns)
    THEN SelectColumns(frame, model_feature_names)
    ELSE SelectColumns(frame, MODEL_FEATURES)

\* an adaptation that hands every field of the UI record to the model
prepare_model_df_from_ui_dict_AllFields(dd) ==
    [columns |-> UI_FIELDS, data |-> <<[f \in Range(UI_FIELDS) |-> CoerceField(dd, f)]>>]

prepare_model_df_from_ui_dict(dd) ==
    LET row == [f \in Range(MODEL_FEATURES) |-> CoerceField(dd, f)]
    IN  Reorder([columns |-> MODEL_FEATURES, data |-> <<row>>])

NoDf == [columns |-> <<>>, data |-> <<>>]

\* nothing built yet on the batch and preview paths
NoPaths == [batch |-> NoDf, preview |-> NoDf, preview_error |-> FALSE]

\* the history panel not rendered yet
NoRender == [done |-> FALSE, shown |-> <<>>, info |-> "", error |-> "", chart |-> FALSE]

\* no report being written
NoPdf == [n |-> 0, i |-> 0, y |-> 0, page |-> 0, drawn |-> <<>>, saved |-> FALSE]

----------------------------------------------------------------------------
(* HistoryStore: the CSV file, as a sequence of lines; a line is the        *)
(* sequence of its cells' texts (to_csv quotes a cell that needs it and     *)
(* read_csv unquotes it, so a cell's text survives as one cell).            *)

HistoryColumns == UI_FIELDS \o <<"prediction", "mode", "timestamp">>

NoFile == [exists |-> FALSE, lines |-> <<>>]

\* datetime.now().strftime("%Y-%m-%d %H:%M:%S")
strftime(c) == "2026-11-02 10:00:0" \o ToString(c)

\* the text to_csv writes for one cell (missing values are written empty)
Text(v) ==
    CASE v.k = "num" -> ToString(v.n)
      [] v.k = "str" -> v.s
      [] v.k = "inf" -> "inf"
      [] OTHER -> ""

\* the strings read_csv takes for a missing value (pandas' defaults that occur here)
NA_VALUES == {"", "N/A", "NA", "nan", "NaN", "null", "None"}

\* the value read_csv gives one cell
ParseCell(t) ==
    IF t \in NA_VALUES THEN NaN
    ELSE IF IsNumText(t) THEN Num(ParseNum(t))
    ELSE IF t = "inf" THEN Inf
    ELSE Str(t)

\* one data line of `out`: the UI fields, then prediction, mode, timestamp
CsvLine(row, pred, mode, ts) ==
    [j \in 1..Len(UI_FIELDS) |-> Text(row[UI_FIELDS[j]])] \o <<Text(pred), mode, ts>>

\* a writer that reads the clock anew for every row
save_history_csv_RowClock(ui_df, preds, mode) ==
    LET out == [i \in DOMAIN ui_df |-> CsvLine(ui_df[i], preds[i], mode, strftime(clock + i - 1))]
    IN  IF CSV_HISTORY.exists
        THEN [raised |-> FALSE,
              file |-> [exists |-> TRUE, lines |-> CSV_HISTORY.lines \o out]]
        ELSE IF "reports/predictions" \in dirs
        THEN [raised |-> FALSE,
              file |-> [exists |-> TRUE, lines |-> <<HistoryColumns>> \o out]]
        ELSE [raised |-> TRUE, file |-> CSV_HISTORY]

\* save_history_csv: the file afterwards, or a raise when to_csv cannot open it
save_history_csv(ui_df, preds, mode) ==
    LET ts == strftime(clock)
        out == [i \in DOMAIN ui_df |-> CsvLine(ui_df[i], preds[i], mode, ts)]
    IN  IF CSV_HISTORY.exists
        THEN [raised |-> FALSE,
              file |-> [exists |-> TRUE, lines |-> CSV_HISTORY.lines \o out]]
        ELSE IF "reports/predictions" \in dirs
        THEN [raised |-> FALSE,
              file |-> [exists |-> TRUE, lines |-> <<HistoryColumns>> \o out]]
        ELSE [raised |-> TRUE, file |-> CSV_HISTORY]

\* pd.read_csv(CSV_HISTORY): the first line names the columns, the others are rows
read_csv(file) ==
    [i \in 1..(Len(file.lines) - 1) |->
        [c \in Range(file.lines[1]) |->
            ParseCell(file.lines[i + 1][CHOOSE j \in DOMAIN file.lines[1] : file.lines[1][j] = c])]]

\* the history the dashboard shows: nothing while the file does not exist
hist == IF CSV_HISTORY.exists /\ CSV_HISTORY.lines # <<>> THEN read_csv(CSV_HISTORY) ELSE <<>>

DataRows(file) == IF file.lines = <<>> THEN 0 ELSE Len(file.lines) - 1

----------------------------------------------------------------------------
(* PredictiveModel: opaque; predict raises or returns a sequence *)

\* what model.predict may do on a batch of n rows: raise, return rows that are no
\* scalars, or return n numbers (two samples, differing in every place)
ModelOutcomes(n) ==
    {[raises |-> TRUE, preds |-> <<>>], [raises |-> FALSE, preds |-> [i \in 1..n |-> Obj]]}
    \cup {[raises |-> FALSE,
           preds |-> [i \in 1..n |-> IF (i + k) % 2 = 0 THEN Num(1) ELSE Num(MaxNum)]] :
          k \in 0..1}

\* the feature-name orders a loaded model may declare
DeclaredOrders ==
    { <<"price_change_24h", "liquidity_ratio", "mkt_cap", "24h_volume", "7d", "24h", "1h", "price">>,
      <<"price", "1h">>,
      MODEL_FEATURES \o <<"volatility">>,
      <<"volatility", "price_change_24h", "liquidity_ratio", "mkt_cap", "24h_volume", "7d", "24h",
        "1h", "price">>,
      <<"price", "price", "1h", "24h", "7d", "24h_volume", "mkt_cap", "liquidity_ratio",
        "price_change_24h">> }

Models ==
    {[has_names |-> FALSE, feature_names_in_ |-> <<>>]}
    \cup {[has_names |-> TRUE, feature_names_in_ |-> o] : o \in DeclaredOrders}

\* the artifacts the dashboard runs are explored with: one without declared names, one
\* declaring the features in another order
DeployedModels ==
    {m \in Models : ~m.has_names \/ (Len(m.feature_names_in_) = 8 /\ m.feature_names_in_[1] # "price")}

----------------------------------------------------------------------------
(* What one script run did *)

NoLast ==
    [op |-> "none", ui |-> <<>>, model_input |-> NoDf, called |-> FALSE, returned |-> FALSE,
     preds |-> <<>>, displayed |-> FALSE, pred |-> None, out |-> <<>>, saved |-> FALSE,
     download |-> "", csv |-> <<>>, warning |-> "", error |-> "", cause |-> "",
     logged |-> <<>>, steps |-> <<>>]

\* logging.info(json.dumps({"mode": "single", "inputs": ui, "prediction": pred}))
LogSingle(ui, pred) ==
    [level |-> "INFO", msg |-> "single", inputs |-> ui, prediction |-> pred, rows |-> 0]

\* logging.info(f"Batch predicted {len(out)} rows")
LogBatch(n) ==
    [level |-> "INFO", msg |-> "Batch predicted", inputs |-> <<>>, prediction |-> None, rows |-> n]

\* logging.exception(msg)
LogException(msg) ==
    [level |-> "ERROR", msg |-> msg, inputs |-> <<>>, prediction |-> None, rows |-> 0]

----------------------------------------------------------------------------
(* Inputs of the script runs *)

\* the form of the single mode: three text inputs and eight number inputs
SingleInputs ==
    {[f \in Range(UI_FIELDS) |->
        IF f = "coin" THEN coin
        ELSE IF f = "symbol" THEN Str("")
        ELSE IF f = "date" THEN Str("2026-11-02")
        ELSE IF f = "price" THEN price
        ELSE Num(0)] :
     coin \in {Str("btc"), Str("N/A")}, price \in {Num(MaxNum)}}

\* columns an edited table or uploaded CSV may have: the UI fields, or a table that
\* lacks two of them and has a column of its own
BatchColumnSets ==
    <<Range(UI_FIELDS), (Range(UI_FIELDS) \ {"mkt_cap", "symbol"}) \cup {"note"}>>

BatchRow(cols, coin, price) ==
    [c \in cols |->
        IF c = "coin" THEN coin
        ELSE IF c = "price" THEN price
        ELSE IF c \in DisplayFields THEN Str("")
        ELSE IF c = "note" THEN Str("memo")
        ELSE Num(0)]

\* a well-formed row and a malformed one
BatchRows(cols) ==
    <<BatchRow(cols, Str("eth"), Num(1)), BatchRow(cols, NaN, Str("N/A"))>>

\* the tables of at most MaxBatch rows: either column set, the rows alternating between
\* the well-formed and the malformed one
BatchInputs ==
    {[columns |-> BatchColumnSets[k],
      rows |-> [i \in 1..n |-> BatchRows(BatchColumnSets[k])[((i + k) % 2) + 1]]] :
        n \in 0..MaxBatch, k \in 1..2}

----------------------------------------------------------------------------
(* PredictionService *)

StartupDirs == {"logs", "reports"}

\* the state after the script's top has run in a deployment without history: logs/ and
\* reports/ exist (mkdir at start-up); reports/predictions/ exists only where the
\* deployment was provisioned with it, since the script never creates it
Init ==
    /\ model \in DeployedModels
    /\ dirs \in {StartupDirs, StartupDirs \cup {"reports/predictions"}}
    /\ CSV_HISTORY = NoFile
    /\ clock = 0
    /\ last = NoLast
    /\ d = <<>>
    /\ df = NoDf
    /\ paths = NoPaths
    /\ render = NoRender
    /\ pdf = NoPdf

\* a try block that writes the report before it appends the history row
SingleAfterPredict_ReportFirst(ui, base, preds, pdf_ok) ==
    LET pred == IF preds = <<>> THEN Raise ELSE float(preds[1])
        got == [base EXCEPT !.returned = TRUE, !.preds = preds]
        saved == save_history_csv(<<ui>>, <<pred>>, "single")
    IN  /\ pred = Raise => pdf_ok
        /\ IF pred = Raise
           THEN /\ last' = [got EXCEPT !.error = "Prediction failed", !.cause = "float",
                                       !.logged = <<LogException("Prediction failed")>>]
                /\ UNCHANGED CSV_HISTORY
           ELSE IF ~pdf_ok
           THEN /\ last' = [got EXCEPT !.displayed = TRUE, !.pred = pred,
                                       !.error = "Prediction failed", !.cause = "generate_pdf",
                                       !.steps = base.steps \o <<"report">>,
                                       !.logged = <<LogException("Prediction failed")>>]
                /\ UNCHANGED CSV_HISTORY
           ELSE IF saved.raised
           THEN /\ last' = [got EXCEPT !.displayed = TRUE, !.pred = pred, !.download = "pdf",
                                       !.error = "Prediction failed", !.cause = "to_csv",
                                       !.steps = base.steps \o <<"report", "append">>,
                                       !.logged = <<LogException("Prediction failed")>>]
                /\ UNCHANGED CSV_HISTORY
           ELSE /\ CSV_HISTORY' = saved.file
                /\ last' = [got EXCEPT !.displayed = TRUE, !.pred = pred, !.saved = TRUE,
                                       !.download = "pdf",
                                       !.steps = base.steps \o <<"report", "append">>,
                                       !.logged = <<LogSingle(ui, pred)>>]

\* the rest of the try block once model.predict has returned preds: float(preds[0]),
\* st.success, save_history_csv, generate_pdf and the download button
SingleAfterPredict(ui, base, preds, pdf_ok) ==
    LET pred == IF preds = <<>> THEN Raise ELSE float(preds[1])
        got == [base EXCEPT !.returned = TRUE, !.preds = preds]
        saved == save_history_csv(<<ui>>, <<pred>>, "single")
    IN  /\ (pred = Raise \/ saved.raised) => pdf_ok        \* generate_pdf not reached
        /\ IF pred = Raise
           THEN /\ last' = [got EXCEPT !.error = "Prediction failed", !.cause = "float",
                                       !.logged = <<LogException("Prediction failed")>>]
                /\ UNCHANGED CSV_HISTORY
           ELSE IF saved.raised
           THEN /\ last' = [got EXCEPT !.displayed = TRUE, !.pred = pred,
                                       !.error = "Prediction failed", !.cause = "to_csv",
                                       !.steps = base.steps \o <<"append">>,
                                       !.logged = <<LogException("Prediction failed")>>]
                /\ UNCHANGED CSV_HISTORY
           ELSE /\ CSV_HISTORY' = saved.file
                /\ last' = [got EXCEPT !.displayed = TRUE, !.pred = pred, !.saved = TRUE,
                                       !.steps = base.steps \o <<"append", "report">>,
                                       !.download = IF pdf_ok THEN "pdf" ELSE "",
                                       !.error = IF pdf_ok THEN "" ELSE "Prediction failed",
                                       !.cause = IF pdf_ok THEN "" ELSE "generate_pdf",
                                       !.logged =
                                          IF pdf_ok THEN <<LogSingle(ui, pred)>>
                                          ELSE <<LogSingle(ui, pred),
                                                 LogException("Prediction failed")>>]

\* a handler that logs a history row even when model.predict raised
SinglePredict_SaveOnRaise(ui, outcome, pdf_ok) ==
    LET base == [NoLast EXCEPT !.op = "single", !.ui = <<ui>>,
                               !.model_input = prepare_model_df_from_ui_dict(ui),
                               !.called = TRUE, !.steps = <<"predict">>]
    IN  /\ DataRows(CSV_HISTORY) + 1 <= MaxRows
        /\ IF outcome.raises
           THEN /\ pdf_ok
                /\ last' = [base EXCEPT !.error = "Prediction failed", !.cause = "predict",
                                       !.logged = <<LogException("Prediction failed")>>]
                /\ CSV_HISTORY' = save_history_csv(<<ui>>, <<NaN>>, "single").file
           ELSE SingleAfterPredict(ui, base, outcome.preds, pdf_ok)
        /\ UNCHANGED <<model, dirs, clock, d, df, paths, render, pdf>>

\* the "Predict Liquidity Score" button: the try block and its except
SinglePredict(ui, outcome, pdf_ok) ==
    LET base == [NoLast EXCEPT !.op = "single", !.ui = <<ui>>,
                               !.model_input = prepare_model_df_from_ui_dict(ui),
                               !.called = TRUE, !.steps = <<"predict">>]
    IN  /\ DataRows(CSV_HISTORY) + 1 <= MaxRows      \* explored while the file has room
        /\ IF outcome.raises
           THEN /\ pdf_ok                            \* generate_pdf not reached
                /\ last' = [base EXCEPT !.error = "Prediction failed", !.cause = "predict",
                                       !.logged = <<LogException("Prediction failed")>>]
                /\ UNCHANGED CSV_HISTORY
           ELSE SingleAfterPredict(ui, base, outcome.preds, pdf_ok)
        /\ UNCHANGED <<model, dirs, clock, d, df, paths, render, pdf>>

\* pd.to_numeric(column, errors="coerce").fillna(0.0), for one cell
to_numeric_fillna(v) ==
    LET x == float(v)
    IN  IF x = Raise \/ x = NaN THEN Num(0) ELSE x

\* ui_batch: the edited table with every missing UI field added with its default
ui_batch(editable) ==
    [i \in DOMAIN editable.rows |->
        [c \in editable.columns \cup Range(UI_FIELDS) |->
            IF c \in editable.columns THEN editable.rows[i][c]
            ELSE IF c \in DisplayFields THEN Str("")
            ELSE Num(0)]]

\* model_batch, reordered
model_batch(editable) ==
    Reorder([columns |-> MODEL_FEATURES,
             data |-> [i \in DOMAIN editable.rows |->
                         [f \in Range(MODEL_FEATURES) |-> to_numeric_fillna(ui_batch(editable)[i][f])]]])

\* np.linspace(base_price * 0.9, base_price * 1.1, 30)
SimPoints == 30

\* the i-th simulated price, as a value of its own kind
SimPrice(i) == [k |-> "sim", n |-> i, s |-> ""]

\* base_vals = {f: float(ui.get(f, 0.0)) ...} raises inside the preview's try block
preview_raises(ui) ==
    \E f \in Range(MODEL_FEATURES) : f \in DOMAIN ui /\ float(ui[f]) = Raise

\* sim_df: one row per simulated price, the other features at their base values, reordered
sim_df(ui) ==
    LET base_vals == [f \in Range(MODEL_FEATURES) |->
                        IF f \in DOMAIN ui THEN float(ui[f]) ELSE Num(0)]
    IN  Reorder([columns |-> MODEL_FEATURES,
                 data |-> [i \in 1..SimPoints |->
                             [f \in Range(MODEL_FEATURES) |->
                                 IF f = "price" THEN SimPrice(i) ELSE base_vals[f]]]])

\* a table whose predictions are attached in reverse row order
BatchOut_Reversed(editable, preds) ==
    [i \in DOMAIN editable.rows |->
        [c \in editable.columns \cup Range(UI_FIELDS) \cup {"prediction"} |->
            IF c = "prediction" THEN preds[Len(preds) + 1 - i] ELSE ui_batch(editable)[i][c]]]

\* out = ui_batch.copy(); out["prediction"] = preds
BatchOut(editable, preds) ==
    [i \in DOMAIN editable.rows |->
        [c \in editable.columns \cup Range(UI_FIELDS) \cup {"prediction"} |->
            IF c = "prediction" THEN preds[i] ELSE ui_batch(editable)[i][c]]]

\* a download that keeps the UI fields and the prediction only
csv_buf_UiOnly(out) ==
    [i \in DOMAIN out |->
        [c \in Range(UI_FIELDS) \cup {"prediction"} |-> Text(out[i][c])]]

\* csv_buf = out.to_csv(index=False): the cells of the download, by row and column name
csv_buf(out) ==
    [i \in DOMAIN out |-> [c \in DOMAIN out[i] |-> Text(out[i][c])]]

\* an emptiness test that lets every table through
no_rows_Never(editable) == FALSE

\* editable is None or len(editable) == 0
no_rows(editable) == Len(editable.rows) = 0

\* the rest of the try block once model.predict has returned preds: the prediction
\* column, st.dataframe, save_history_csv and the download button
BatchAfterPredict(editable, ran, preds) ==
    LET n == Len(editable.rows)
        got == [ran EXCEPT !.returned = TRUE, !.preds = preds]
        fits == Len(preds) = n /\ \A i \in 1..n : preds[i] # Obj
        out == BatchOut(editable, preds)
        saved == save_history_csv(out, preds, "batch")
    IN  IF ~fits
        THEN /\ last' = [got EXCEPT !.error = "Batch prediction failed", !.cause = "assign",
                                    !.logged = <<LogException("Batch error")>>]
             /\ UNCHANGED CSV_HISTORY
        ELSE IF saved.raised
        THEN /\ last' = [got EXCEPT !.displayed = TRUE, !.out = out,
                                    !.error = "Batch prediction failed", !.cause = "to_csv",
                                    !.logged = <<LogException("Batch error")>>]
             /\ UNCHANGED CSV_HISTORY
        ELSE /\ CSV_HISTORY' = saved.file
             /\ last' = [got EXCEPT !.displayed = TRUE, !.out = out, !.saved = TRUE,
                                    !.download = "batch_predictions.csv",
                                    !.csv = csv_buf(out),
                                    !.logged = <<LogBatch(n)>>]

\* a handler that logs the rows, without predictions, even when model.predict raised
BatchPredict_SaveOnRaise(editable, outcome) ==
    LET n == Len(editable.rows)
        base == [NoLast EXCEPT !.op = "batch", !.ui = editable.rows]
        ran == [base EXCEPT !.model_input = model_batch(editable), !.called = TRUE]
    IN  /\ DataRows(CSV_HISTORY) + n <= MaxRows
        /\ IF no_rows(editable)
           THEN /\ last' = [base EXCEPT !.warning = "No rows."]
                /\ UNCHANGED CSV_HISTORY
           ELSE IF outcome.raises
           THEN /\ last' = [ran EXCEPT !.error = "Batch prediction failed", !.cause = "predict",
                                    !.logged = <<LogException("Batch error")>>]
                /\ CSV_HISTORY' =
                      save_history_csv(ui_batch(editable), [i \in 1..n |-> NaN], "batch").file
           ELSE BatchAfterPredict(editable, ran, outcome.preds)
        /\ UNCHANGED <<model, dirs, clock, d, df, paths, render, pdf>>

\* the "Predict (batch)" button
BatchPredict(editable, outcome) ==
    LET n == Len(editable.rows)
        base == [NoLast EXCEPT !.op = "batch", !.ui = editable.rows]
        ran == [base EXCEPT !.model_input = model_batch(editable), !.called = TRUE]
    IN  /\ DataRows(CSV_HISTORY) + n <= MaxRows      \* explored while the file has room
        /\ IF no_rows(editable)
           THEN /\ last' = [base EXCEPT !.warning = "No rows."]
                /\ UNCHANGED CSV_HISTORY
           ELSE IF outcome.raises
           THEN /\ last' = [ran EXCEPT !.error = "Batch prediction failed", !.cause = "predict",
                                    !.logged = <<LogException("Batch error")>>]
                /\ UNCHANGED CSV_HISTORY
           ELSE BatchAfterPredict(editable, ran, outcome.preds)
        /\ UNCHANGED <<model, dirs, clock, d, df, paths, render, pdf>>

\* time passes between two script runs
Tick ==
    /\ clock < MaxClock
    /\ clock' = clock + 1
    /\ UNCHANGED <<model, dirs, CSV_HISTORY, last, d, df, paths, render, pdf>>

\* the process is restarted: the script's top runs again, nothing on screen
Restart ==
    /\ last # NoLast
    /\ dirs' = dirs \cup StartupDirs
    /\ last' = NoLast
    /\ UNCHANGED <<model, CSV_HISTORY, clock, d, df, paths, render, pdf>>

Next ==
    \/ \E ui \in SingleInputs, outcome \in ModelOutcomes(1), pdf_ok \in BOOLEAN :
          SinglePredict(ui, outcome, pdf_ok)
    \/ \E editable \in BatchInputs : \E outcome \in ModelOutcomes(Len(editable.rows)) :
          BatchPredict(editable, outcome)
    \/ Tick
    \/ Restart

Spec == Init /\ [][Next]_vars

----------------------------------------------------------------------------
(* The adapter on its own: prepare_model_df_from_ui_dict applied to one mapping *)

Missing == [k |-> "missing", n |-> 0, s |-> ""]     \* marks a key the mapping does not have

FieldValues ==
    {Missing, None, Str(""), Str("N/A"), Str("2"), Num(MaxNum), NaN, Str("inf")}

IndexOf(seq, x) == CHOOSE i \in DOMAIN seq : seq[i] = x

\* a record whose eight features are numbers, with a column of its own beside the UI fields
BaseMapping ==
    [f \in Range(UI_FIELDS) \cup {"note"} |->
        IF f = "date" THEN Str("2026-11-02")
        ELSE IF f = "note" THEN Str("memo")
        ELSE IF f \in DisplayFields THEN Str("btc")
        ELSE Num(IndexOf(MODEL_FEATURES, f) % (MaxNum + 1))]

Override(m, f, v) ==
    IF v = Missing THEN [x \in DOMAIN m \ {f} |-> m[x]]
    ELSE [x \in DOMAIN m \cup {f} |-> IF x = f THEN v ELSE m[x]]

\* the base record with up to two of its feature fields replaced or removed
InputMappings ==
    {Override(Override(BaseMapping, f1, v1), f2, v2) :
        f1 \in Range(MODEL_FEATURES), f2 \in Range(MODEL_FEATURES),
        v1 \in FieldValues, v2 \in FieldValues}

InitAdapt ==
    /\ model \in Models
    /\ dirs = StartupDirs
    /\ CSV_HISTORY = NoFile
    /\ clock = 0
    /\ last = NoLast
    /\ d \in InputMappings
    /\ df = NoDf
    /\ paths = NoPaths
    /\ render = NoRender
    /\ pdf = NoPdf

Prepare ==
    /\ df = NoDf
    /\ df' = prepare_model_df_from_ui_dict(d)
    /\ UNCHANGED <<model, dirs, CSV_HISTORY, clock, last, d, paths, render, pdf>>

\* the same values as a one-row table: a key the mapping lacks is a column the table lacks
OneRowTable(dd) == [columns |-> DOMAIN dd, rows |-> <<dd>>]

\* the batch path builds its model input from that table
AdaptBatch ==
    /\ paths.batch = NoDf
    /\ paths' = [paths EXCEPT !.batch = model_batch(OneRowTable(d))]
    /\ UNCHANGED <<model, dirs, CSV_HISTORY, clock, last, d, df, render, pdf>>

\* the preview chart builds its frame from the same values, or gives up
Preview ==
    /\ paths.preview = NoDf
    /\ ~paths.preview_error
    /\ paths' = IF preview_raises(d)
                THEN [paths EXCEPT !.preview_error = TRUE]
                ELSE [paths EXCEPT !.preview = sim_df(d)]
    /\ UNCHANGED <<model, dirs, CSV_HISTORY, clock, last, d, df, render, pdf>>

NextAdapt ==
    \/ Prepare
    \/ AdaptBatch
    \/ Preview

SpecAdapt == InitAdapt /\ [][NextAdapt]_vars

----------------------------------------------------------------------------
(* The history panel, rendered over a store in any condition it may be found in *)

\* hist.tail(50)
TailRows == 50

tail(rows) ==
    IF Len(rows) <= TailRows THEN rows
    ELSE [i \in 1..TailRows |-> rows[Len(rows) - TailRows + i]]

\* pd.read_csv(CSV_HISTORY, parse_dates=["timestamp"]) raises: EmptyDataError on a file
\* of no lines, ValueError when the header has no timestamp column
read_history_raises(file) ==
    \/ file.lines = <<>>
    \/ "timestamp" \notin Range(file.lines[1])

\* a text pd.to_datetime accepts
IsTimestamp(t) == \E c \in 0..MaxClock : t = strftime(c)

\* pd.to_datetime(hist["timestamp"]) raises on a text that is no date
to_datetime_raises(rows) ==
    \E i \in DOMAIN rows :
        rows[i]["timestamp"].k = "str" /\ ~IsTimestamp(rows[i]["timestamp"].s)

\* groupby(...)["prediction"].mean() raises: no such column, or a column of texts
mean_raises(rows) ==
    \E i \in DOMAIN rows :
        \/ "prediction" \notin DOMAIN rows[i]
        \/ rows[i]["prediction"].k = "str"

\* the "Prediction history (recent)" panel: what it shows for the file as it is
history_panel(file) ==
    IF ~file.exists
    THEN [NoRender EXCEPT !.done = TRUE, !.info = "No history yet"]
    ELSE IF read_history_raises(file)
    THEN [NoRender EXCEPT !.done = TRUE, !.error = "Could not load history"]
    ELSE LET rows == read_csv(file)
         IN  IF to_datetime_raises(rows) \/ mean_raises(rows)
             THEN [NoRender EXCEPT !.done = TRUE, !.shown = tail(rows),
                                   !.error = "Could not load history"]
             ELSE [NoRender EXCEPT !.done = TRUE, !.shown = tail(rows), !.chart = TRUE]

\* the lines save_history_csv may have written at clock c
HistoryLines(c) ==
    {CsvLine(ui, pred, mode, strftime(c)) :
        ui \in SingleInputs, pred \in {Num(1), Num(MaxNum)}, mode \in {"single", "batch"}}

\* the files the program's own appends leave: the header and up to MaxRows lines,
\* their timestamps never going back
WrittenFiles ==
    UNION {{[exists |-> TRUE, lines |-> <<HistoryColumns>> \o body] :
              body \in {b \in [1..n -> UNION {HistoryLines(c) : c \in 0..MaxClock}] :
                          \A i \in 1..(n - 1) :
                              \E c1 \in 0..MaxClock : \E c2 \in c1..MaxClock :
                                  b[i] \in HistoryLines(c1) /\ b[i + 1] \in HistoryLines(c2)}} :
           n \in 1..MaxRows}

\* a line of the file with one cell overwritten
Damaged(line, column, text) ==
    [j \in DOMAIN line |-> IF HistoryColumns[j] = column THEN text ELSE line[j]]

\* files damaged from outside: truncated to nothing, replaced by other content, or
\* with a cell overwritten
DamagedFiles ==
    LET line == CHOOSE l \in HistoryLines(0) : TRUE
    IN  { [exists |-> TRUE, lines |-> <<>>],
          [exists |-> TRUE, lines |-> << <<"garbage">> >>],
          [exists |-> TRUE, lines |-> <<HistoryColumns, Damaged(line, "timestamp", "garbage")>>],
          [exists |-> TRUE, lines |-> <<HistoryColumns, Damaged(line, "prediction", "abc")>>] }

StoreStates == {NoFile} \cup WrittenFiles \cup DamagedFiles

InitRender ==
    /\ model \in DeployedModels
    /\ dirs = StartupDirs \cup {"reports/predictions"}
    /\ CSV_HISTORY \in StoreStates
    /\ clock = 0
    /\ last = NoLast
    /\ d = <<>>
    /\ df = NoDf
    /\ paths = NoPaths
    /\ render = NoRender
    /\ pdf = NoPdf

\* one render of the history panel
RenderHistory ==
    /\ ~render.done
    /\ render' = history_panel(CSV_HISTORY)
    /\ UNCHANGED <<model, dirs, CSV_HISTORY, clock, last, d, df, paths, pdf>>

NextRender == RenderHistory

SpecRender == InitRender /\ [][NextRender]_vars

----------------------------------------------------------------------------
(* generate_pdf: the listing of the input record, one loop iteration per step *)

ListTop == 702          \* y = 702, where "Input features:" is drawn
HeadingGap == 18        \* y -= 18
LineGap == 14           \* y -= 14
BottomMargin == 60      \* if y < 60
PageTop == 750          \* y = 750

InitPdf ==
    /\ model \in DeployedModels
    /\ dirs = StartupDirs \cup {"reports/predictions"}
    /\ CSV_HISTORY = NoFile
    /\ clock = 0
    /\ last = NoLast
    /\ d = <<>>
    /\ df = NoDf
    /\ paths = NoPaths
    /\ render = NoRender
    /\ pdf = NoPdf

\* generate_pdf is called with a record of n fields: the canvas, the title lines and
\* the "Input features:" heading
PdfHeader(n) ==
    /\ pdf = NoPdf
    /\ pdf' = [n |-> n, i |-> 0, y |-> ListTop - HeadingGap, page |-> 1, drawn |-> <<>>,
               saved |-> FALSE]
    /\ UNCHANGED <<model, dirs, CSV_HISTORY, clock, last, d, df, paths, render>>

\* a loop body that looks at the position before moving down
PdfLine_TestBeforeStep ==
    /\ pdf.page > 0 /\ ~pdf.saved
    /\ pdf.i < pdf.n
    /\ pdf' = [pdf EXCEPT !.i = pdf.i + 1,
                          !.drawn = Append(pdf.drawn,
                                           [field |-> pdf.i + 1, page |-> pdf.page, y |-> pdf.y]),
                          !.y = IF pdf.y < BottomMargin THEN PageTop ELSE pdf.y - LineGap,
                          !.page = IF pdf.y < BottomMargin THEN pdf.page + 1 ELSE pdf.page]
    /\ UNCHANGED <<model, dirs, CSV_HISTORY, clock, last, d, df, paths, render>>

\* one iteration of the loop over input_row.items(): drawString at y, y -= 14, and a
\* new page when y < 60
PdfLine ==
    /\ pdf.page > 0 /\ ~pdf.saved
    /\ pdf.i < pdf.n
    /\ pdf' = [pdf EXCEPT !.i = pdf.i + 1,
                          !.drawn = Append(pdf.drawn,
                                           [field |-> pdf.i + 1, page |-> pdf.page, y |-> pdf.y]),
                          !.y = IF pdf.y - LineGap < BottomMargin THEN PageTop
                                ELSE pdf.y - LineGap,
                          !.page = IF pdf.y - LineGap < BottomMargin THEN pdf.page + 1
                                   ELSE pdf.page]
    /\ UNCHANGED <<model, dirs, CSV_HISTORY, clock, last, d, df, paths, render>>

\* c.save() after the loop
PdfSave ==
    /\ pdf.page > 0 /\ ~pdf.saved
    /\ pdf.i = pdf.n
    /\ pdf' = [pdf EXCEPT !.saved = TRUE]
    /\ UNCHANGED <<model, dirs, CSV_HISTORY, clock, last, d, df, paths, render>>

NextPdf ==
    \/ \E n \in 0..MaxFields : PdfHeader(n)
    \/ PdfLine
    \/ PdfSave

SpecPdf == InitPdf /\ [][NextPdf]_vars

TypeOK ==
    /\ model \in Models
    /\ CSV_HISTORY.exists \in BOOLEAN
    /\ clock \in 0..MaxClock


----------------------------------------------------------------------------
(* Properties *)

\* a step that is one script run (Tick and Restart leave a run's record or clear it)
RunStep == last' # NoLast /\ (last' # last \/ CSV_HISTORY' # CSV_HISTORY)

\* the model did its part of a single prediction: predict returned and its first
\* result is a number
SingleModelOk(l) ==
    /\ l.op = "single"
    /\ l.returned
    /\ l.preds # <<>>
    /\ l.preds[1] # Obj

\* the model returned one scalar per row of a non-empty batch
BatchModelOk(l) ==
    /\ l.op = "batch"
    /\ l.ui # <<>>
    /\ l.returned
    /\ Len(l.preds) = Len(l.ui)
    /\ \A i \in DOMAIN l.preds : l.preds[i] # Obj

\* two values with the same CSV text (the tolerance of a round trip through text)
SameText(a, b) == Text(a) = Text(b)

IsPrefix(s, t) == Len(s) <= Len(t) /\ \A i \in DOMAIN s : t[i] = s[i]

Cell(line, c) == line[IndexOf(HistoryColumns, c)]

\* C1: whenever the model succeeds in a single prediction, the history read back has
\* exactly one more row than before, and its last row carries the displayed prediction
\* with mode "single".
C1_SingleAppendsOneRow ==
    [][(RunStep /\ SingleModelOk(last'))
        => /\ Len(hist') = Len(hist) + 1
           /\ last'.displayed
           /\ hist'[Len(hist')]["prediction"] = last'.pred
           /\ hist'[Len(hist')]["mode"] = Str("single")]_vars

\* C2: every successful append leaves the rows read before as a prefix of the rows read
\* after, and the rows it adds read back, in order, with every field equal to what was
\* appended.
C2_AppendRoundTrip ==
    [][(RunStep /\ last'.saved)
        => LET n == Len(last'.ui)
               appended == IF last'.op = "single" THEN last'.ui ELSE last'.out
               preds == IF last'.op = "single" THEN <<last'.pred>> ELSE last'.preds
           IN  /\ IsPrefix(hist, hist')
               /\ Len(hist') = Len(hist) + n
               /\ \A i \in 1..n :
                    /\ \A c \in Range(UI_FIELDS) :
                          SameText(hist'[Len(hist) + i][c], appended[i][c])
                    /\ SameText(hist'[Len(hist) + i]["prediction"], preds[i])
                    /\ hist'[Len(hist) + i]["mode"] = Str(last'.op)]_vars

\* C3: the first successful prediction of a fresh deployment creates the store, and an
\* existing store has exactly one header line, its first, and data rows of the header's
\* columns.
C3_LazyCreation ==
    /\ (SingleModelOk(last) \/ BatchModelOk(last)) => CSV_HISTORY.exists
    /\ CSV_HISTORY.exists =>
          /\ CSV_HISTORY.lines # <<>>
          /\ CSV_HISTORY.lines[1] = HistoryColumns
          /\ \A i \in 2..Len(CSV_HISTORY.lines) :
                /\ CSV_HISTORY.lines[i] # HistoryColumns
                /\ Len(CSV_HISTORY.lines[i]) = Len(HistoryColumns)

\* C4: a single prediction whose model invocation fails (predict raises, or its first
\* result does not convert to a float) reports an error and leaves the history file
\* exactly as it was.
C4_SingleFailureKeepsHistory ==
    [][(RunStep /\ last'.op = "single" /\ ~SingleModelOk(last'))
        => /\ last'.error = "Prediction failed"
           /\ ~last'.displayed
           /\ ~last'.saved
           /\ CSV_HISTORY' = CSV_HISTORY]_vars

\* a failed single prediction is on screen over a history that already has a row
C4_Witness ==
    /\ last.op = "single"
    /\ ~SingleModelOk(last)
    /\ last.error = "Prediction failed"
    /\ DataRows(CSV_HISTORY) >= 1

\* C5: a batch request over no rows is answered with the "No rows." warning: the model
\* is not invoked, no output or download is produced, and the history file is unchanged.
C5_EmptyBatchRejected ==
    [][(RunStep /\ last'.op = "batch" /\ last'.ui = <<>>)
        => /\ last'.warning = "No rows."
           /\ ~last'.called
           /\ ~last'.displayed
           /\ last'.out = <<>>
           /\ last'.download = ""
           /\ ~last'.saved
           /\ CSV_HISTORY' = CSV_HISTORY]_vars

\* an empty batch was rejected over a history that already has a row
C5_Witness ==
    /\ last.op = "batch"
    /\ last.ui = <<>>
    /\ last.warning = "No rows."
    /\ DataRows(CSV_HISTORY) >= 1

\* C6: when the model returns one value per row of a non-empty batch, the batch table has
\* one row per input row, in input order: row i echoes every cell of input row i and
\* carries the model's i-th value as its prediction.
C6_BatchOutputInOrder ==
    BatchModelOk(last) =>
        /\ last.displayed
        /\ Len(last.out) = Len(last.ui)
        /\ \A i \in DOMAIN last.ui :
              /\ \A c \in DOMAIN last.ui[i] : last.out[i][c] = last.ui[i][c]
              /\ last.out[i]["prediction"] = last.preds[i]

\* a batch of two different rows got two different predictions
C6_Witness ==
    /\ BatchModelOk(last)
    /\ Len(last.ui) = 2
    /\ last.ui[1] # last.ui[2]
    /\ last.preds[1] # last.preds[2]
    /\ last.out # <<>>

\* C7: a batch whose model invocation raises fails as a whole: no table, an error naming
\* the cause, and the history file unchanged.
C7_BatchFailureKeepsHistory ==
    [][(RunStep /\ last'.op = "batch" /\ last'.called /\ ~last'.returned)
        => /\ last'.out = <<>>
           /\ ~last'.displayed
           /\ last'.download = ""
           /\ last'.error = "Batch prediction failed"
           /\ last'.cause = "predict"
           /\ ~last'.saved
           /\ CSV_HISTORY' = CSV_HISTORY]_vars

\* a batch failed in the model over a history that already has a row
C7_Witness ==
    /\ last.op = "batch"
    /\ last.called
    /\ ~last.returned
    /\ last.error = "Batch prediction failed"
    /\ DataRows(CSV_HISTORY) >= 1

\* C8: one successful batch writes its rows in one append: the file keeps its old lines
\* as a prefix, gains one data line per input row, in input order, and every such line
\* has mode "batch" and one and the same timestamp.
C8_BatchRowsShareTimestamp ==
    [][(RunStep /\ last'.op = "batch" /\ last'.saved)
        => LET n == Len(last'.ui)
               old == CSV_HISTORY.lines
               new == CSV_HISTORY'.lines
               first == Len(new) - n
           IN  /\ IsPrefix(old, new)
               /\ DataRows(CSV_HISTORY') = DataRows(CSV_HISTORY) + n
               /\ \A i \in 1..n :
                    /\ Cell(new[first + i], "mode") = "batch"
                    /\ Cell(new[first + i], "timestamp") = Cell(new[first + 1], "timestamp")
                    /\ Cell(new[first + i], "timestamp") = strftime(clock)
                    /\ \A c \in DOMAIN last'.ui[i] \cap Range(UI_FIELDS) :
                          Cell(new[first + i], c) = Text(last'.ui[i][c])
                    /\ Cell(new[first + i], "prediction") = Text(last'.preds[i])]_vars

\* a batch of two rows was appended after an earlier prediction made at another second
C8_Witness ==
    /\ last.op = "batch"
    /\ last.saved
    /\ Len(last.ui) = 2
    /\ last.ui[1] # last.ui[2]
    /\ clock > 0

\* the feature fields of the mapping that hold a number, and the number each holds
Numeric(dd, f) ==
    /\ f \in DOMAIN dd
    /\ \/ dd[f].k \in {"num", "nan", "inf"}
       \/ dd[f].k = "str" /\ (IsNumText(dd[f].s) \/ dd[f].s \in {"inf", "nan"})

NumericValue(v) ==
    IF v.k # "str" THEN v
    ELSE IF v.s = "inf" THEN Inf
    ELSE IF v.s = "nan" THEN NaN
    ELSE Num(ParseNum(v.s))

\* C9: the adapter raises for no field value: every emitted feature field that is missing,
\* None, empty or not parsable as a number is 0.0, and every other emitted field has its
\* input's numeric value, whatever the other fields hold.
C9_CoercionPerField ==
    df # NoDf =>
        \A j \in DOMAIN df.columns :
            LET f == df.columns[j]
            IN  /\ df.data[1][f] # Raise
                /\ df.data[1][f] = IF Numeric(d, f) THEN NumericValue(d[f]) ELSE Num(0)

\* all eight fields were emitted for a mapping with one key missing and one malformed
C9_Witness ==
    /\ df # NoDf
    /\ Range(df.columns) = Range(MODEL_FEATURES)
    /\ \E f \in Range(MODEL_FEATURES) : f \notin DOMAIN d /\ df.data[1][f] = Num(0)
    /\ \E f \in Range(MODEL_FEATURES) :
          f \in DOMAIN d /\ d[f] = Str("N/A") /\ df.data[1][f] = Num(0)
    /\ \E f \in Range(MODEL_FEATURES) :
          f \in DOMAIN d /\ d[f].k = "num" /\ d[f] # Num(0) /\ df.data[1][f] = d[f]

\* C10: whatever order the model declares, the frame handed to the model has exactly the
\* eight feature columns, each once, every value a finite number, and for eight numeric
\* inputs it is the input up to reordering.
C10_EightFiniteFields ==
    df # NoDf =>
        /\ Len(df.columns) = Len(MODEL_FEATURES)
        /\ Range(df.columns) = Range(MODEL_FEATURES)
        /\ \A f \in Range(df.columns) : df.data[1][f].k = "num"
        /\ (\A f \in Range(MODEL_FEATURES) : f \in DOMAIN d /\ d[f].k = "num")
              => \A f \in Range(df.columns) : df.data[1][f] = d[f]

\* the frames the three paths have built so far
BuiltFrames == {f \in {df, paths.batch, paths.preview} : f # NoDf}

\* the model declares an order and every declared name is one of the eight fields
DeclaresKnownOrder ==
    /\ model.has_names
    /\ \A i \in DOMAIN model.feature_names_in_ :
          model.feature_names_in_[i] \in Range(MODEL_FEATURES)

Before(seq, a, b) ==
    \E i \in DOMAIN seq : \E j \in DOMAIN seq : i < j /\ seq[i] = a /\ seq[j] = b

\* the declared order names every one of the eight fields (exactly, or with more)
DeclaresSuperset ==
    /\ model.has_names
    /\ Range(MODEL_FEATURES) \subseteq Range(model.feature_names_in_)

\* C12: when the declared order names all eight fields (exactly or as a superset),
\* the single and batch adaptations emit the eight fields in the relative order
\* the model declares them.
C12_DeclaredOrderPrecedence ==
    DeclaresSuperset =>
        \A f \in {df, paths.batch} \ {NoDf} :
            /\ Range(MODEL_FEATURES) \subseteq Range(f.columns)
            /\ \A a \in Range(MODEL_FEATURES) : \A b \in Range(MODEL_FEATURES) \ {a} :
                  Before(f.columns, a, b) <=> Before(model.feature_names_in_, a, b)

\* C13: whatever the model declares and whatever the record or table holds beside
\* the eight features, the frame built on the single, batch and preview paths has
\* columns, and cells, of the eight model features only.
C13_OnlyModelFeatures ==
    \A f \in BuiltFrames :
        /\ Range(f.columns) \subseteq Range(MODEL_FEATURES)
        /\ \A i \in DOMAIN f.data : DOMAIN f.data[i] \subseteq Range(MODEL_FEATURES)

\* a record with display fields and a column of its own went through all three paths
\* for a model that declares a name outside the eight
C13_Witness ==
    /\ model.has_names
    /\ ~DeclaresKnownOrder
    /\ {"coin", "symbol", "date", "note"} \subseteq DOMAIN d
    /\ df # NoDf /\ paths.batch # NoDf /\ paths.preview # NoDf
    /\ Range(df.columns) \subseteq Range(MODEL_FEATURES)

\* C14: the batch path gives every field of a row the value the single path gives
\* that field for the same raw value, whatever its kind.
C14_BatchCoercesAsSingle ==
    (df # NoDf /\ paths.batch # NoDf) =>
        \A f \in Range(df.columns) : paths.batch.data[1][f] = df.data[1][f]

\* the columns row i of the submitted table has beside the UI fields
ExtraColumns(l, i) == DOMAIN l.ui[i] \ Range(UI_FIELDS)

\* the model features row i of the submitted table lacks
MissingFeatures(l, i) == Range(MODEL_FEATURES) \ DOMAIN l.ui[i]

\* the history line this batch wrote for its row i (the batch's rows are the file's last)
BatchLine(l, i) == CSV_HISTORY.lines[Len(CSV_HISTORY.lines) - Len(l.ui) + i]

\* a feature column the table lacks is 0.0 in every row of the model input, the model
\* sees no extra column, and every row gets its prediction
MissingZeroExtrasIgnored(l) ==
    /\ Len(l.preds) = Len(l.ui)
    /\ l.displayed => \A i \in DOMAIN l.ui : l.out[i]["prediction"] = l.preds[i]
    /\ \A i \in DOMAIN l.ui :
          /\ \A f \in MissingFeatures(l, i) \cap Range(l.model_input.columns) :
                l.model_input.data[i][f] = Num(0)
          /\ ExtraColumns(l, i) \cap Range(l.model_input.columns) = {}

C16_HistoryReadNeverFails ==
    render.done =>
        /\ (~CSV_HISTORY.exists \/ CSV_HISTORY.lines = <<>>) =>
              render.shown = <<>> /\ render.error = ""
        /\ CSV_HISTORY \in DamagedFiles => render.shown = <<>>

\* C17: generate_pdf draws exactly one line per field, in the record's order; every
\* listing line is drawn at a y with 60 <= y <= 750; and the next line is on a new
\* page (at 750) exactly when its position one step down would fall below 60, and
\* one step down on the same page otherwise.
C17_PdfPagination ==
    /\ Len(pdf.drawn) = pdf.i
    /\ pdf.saved => Len(pdf.drawn) = pdf.n
    /\ \A k \in DOMAIN pdf.drawn :
          /\ pdf.drawn[k].field = k
          /\ BottomMargin <= pdf.drawn[k].y /\ pdf.drawn[k].y <= PageTop
    /\ \A k \in 1..(Len(pdf.drawn) - 1) :
          IF pdf.drawn[k].y - LineGap < BottomMargin
          THEN /\ pdf.drawn[k + 1].page = pdf.drawn[k].page + 1
               /\ pdf.drawn[k + 1].y = PageTop
          ELSE /\ pdf.drawn[k + 1].page = pdf.drawn[k].page
               /\ pdf.drawn[k + 1].y = pdf.drawn[k].y - LineGap

\* a saved report whose listing went over the first page and over the second
C17_Witness ==
    /\ pdf.saved
    /\ \E k \in DOMAIN pdf.drawn : pdf.drawn[k].page = 3
    /\ \E k \in 1..(Len(pdf.drawn) - 1) :
          /\ pdf.drawn[k].page = 1 /\ pdf.drawn[k].y - LineGap < BottomMargin
          /\ pdf.drawn[k + 1].page = 2 /\ pdf.drawn[k + 1].y = PageTop

\* the features of row i of the run's input that the adaptation turned into 0.0: the
\* model got 0.0 for a field that is missing or whose value is not the number 0
CoercedFields(l, i) ==
    {f \in Range(l.model_input.columns) :
        /\ l.model_input.data[i][f] = Num(0)
        /\ (f \notin DOMAIN l.ui[i] \/ float(l.ui[i][f]) # Num(0))}

\* the log entry carries field f of the input
EntryNamesField(e, f) == f \in DOMAIN e.inputs

\* C18: when the adaptation of a run (single or batch) coerces a feature field to
\* 0.0, no error is shown for it, and the run's log entries name that field.
C18_CoercionLogged ==
    (last.called /\ last.returned /\ last.saved) =>
        \A i \in DOMAIN last.ui : \A f \in CoercedFields(last, i) :
            /\ last.error = "" \/ last.cause = "generate_pdf"
            /\ \E k \in DOMAIN last.logged : EntryNamesField(last.logged[k], f)

\* the history file ends with the row of the run's single prediction
RowAppended(l) ==
    /\ CSV_HISTORY.exists
    /\ DataRows(CSV_HISTORY) >= 1
    /\ \E c \in 0..MaxClock :
          CSV_HISTORY.lines[Len(CSV_HISTORY.lines)] = CsvLine(l.ui[1], l.pred, "single", strftime(c))

\* C19: a single prediction runs model invocation, history append and report
\* generation in that order; the report is generated only once the prediction's row
\* is in the history; and when the report (or its read for the download) fails, the
\* run shows "Prediction failed" while the appended row stays in the history.
C19_PredictAppendReport ==
    last.op = "single" =>
        /\ IsPrefix(last.steps, <<"predict", "append", "report">>)
        /\ Len(last.steps) >= 1
        /\ (\E k \in DOMAIN last.steps : last.steps[k] = "report") =>
              last.saved /\ RowAppended(last)
        /\ last.download = "pdf" => last.saved /\ RowAppended(last)
        /\ last.cause = "generate_pdf" =>
              /\ last.error = "Prediction failed"
              /\ last.download = ""
              /\ last.saved /\ RowAppended(last)

\* a single prediction whose row was appended and whose report then failed
C19_Witness ==
    /\ last.op = "single"
    /\ last.steps = <<"predict", "append", "report">>
    /\ last.cause = "generate_pdf"
    /\ last.error = "Prediction failed"
    /\ RowAppended(last)

====
